---------------------------- MODULE Spec2Model ----------------------------
(***************************************************************************)
(* The image relay of Limx_teleoperate-end_pose: the publisher            *)
(* (ImageBridge, ros2_to_zmq_bridge.py) and the subscriber (ImageClient,  *)
(* image_client.py) with their statistics.                                *)
(*                                                                         *)
(* Time is counted in ticks of 0.1 s, so that the 1.0 s statistics window *)
(* is 10 ticks.  A non-negative double is identified with the integer it  *)
(* counts; its 8 bytes on the wire are the little-endian bytes of that    *)
(* integer (as the bytes of an IEEE-754 double are those of its bit       *)
(* pattern).  Both hosts are little-endian, as struct's native mode is on *)
(* the machines the repository runs on.                                   *)
(***************************************************************************)
EXTENDS Integers, Sequences, FiniteSets, TLC

(***************************************************************************)
(* Bounds of the model.                                                    *)
(***************************************************************************)
\* Largest frame id fed to the statistics in SpecLoss.
MaxId == 4
\* Number of statistics updates in SpecLoss and SpecWindow.
MaxUpdates == 4

\* Camera frames delivered to the publisher plus foreign messages sent, and
\* the messages the channel holds.
MaxMessages == 3
MaxQueue == 2

\* The messages waiting for the subscriber in SpecSkip.
MaxStream == 7

\* The calls of start() on one client in SpecStart.
MaxStarts == 2

\* Statistics updates of either side in SpecReport, and the frame ids a
\* subscriber's first frame can carry there.
MaxFrames == 61
FirstIds == {0, 7}

\* The ticks between two camera frames.
FramePeriods == {4}
\* What a foreign publisher sends: a short message, a header with no payload,
\* a header with a payload that is no image.
ForeignMessages ==
  { <<1, 2, 3>>,
    <<0, 0, 0, 0, 0, 0, 0, 0, 0, 0, 0, 0>>,
    <<0, 0, 0, 0, 0, 0, 0, 0, 0, 0, 0, 0, 9, 9>> }

\* The inputs of SpecWindow: where the clock starts, by how much it moves
\* between two readings (time.time() can step back), and the latencies.
StartTimes == {0, 1000}
Deltas == {-1, 0, 3, 4, 5}
Lats == {0, 1}

(***************************************************************************)
(* Program constants.                                                      *)
(***************************************************************************)
\* self.time_window = 1.0 (seconds), in ticks of 0.1 s.
time_window == 10
\* self.last_frame_id = -1: no frame seen yet.
NoFrame == -1
\* if self.frame_count % 30 == 0 in _print_stats of either side.
ReportEvery == 30
\* header_size = struct.calcsize('dI')
header_size == 12
\* for attempt in range(5), and the last attempt's index in "if attempt < 4".
MaxAttempts == 5
LastAttempt == 4
\* max_skip = 5, and skipped_frames = max_skip + 10 after the first success.
max_skip == 5
SkipRetired == 10

\* The shape the client is constructed with in the repository's programs.
img_shape == "480x640x3"
\* What the named segment can be when an attach is attempted: absent, ready, or
\* present and not mappable to img_shape (not yet sized, or too small).
SegmentStates == {"absent", "ready", "unfit"}

VARIABLES
  \* ImageClient: the constructor's arguments
  enable_stats, cfg_shm, image_show,
  \* ImageClient: fields, the position of run() and its local skipped_frames
  running, enable_shm, image_shm, socket, context, pc, attempt, skipped_frames,
  \* the calls of socket.close() and of context.term() so far
  n_socket_close, n_ctx_term,
  \* where the worker is inside the socket setup, the loop body and its close(),
  \* and where the owner is inside its close(), in SpecClose, which follows them
  \* statement by statement
  at, owner_pc,
  \* where the caller of start() is, and the threads start() has made so far,
  \* each with its position in run(), in SpecStart, which follows them all
  caller, threads,
  \* the shared frame buffer, the named segment and the debug window
  img_array, segment, display,
  \* ImageClient statistics (image_client.py, _init_stats)
  frame_count, last_frame_id, frame_times, latencies, lost_frames, total_frames,
  \* ImageBridge: enable_stats and the statistics (ros2_to_zmq_bridge.py)
  pub_enable_stats, pub_frame_count, pub_frame_times,
  \* the messages published and not yet received
  wire,
  \* time.time()
  clock,
  \* log lines: of the latest step of the receive loop, of each attach attempt
  \* (with the segment it found), and of the latest publisher callback
  log, attach_log, pub_log,
  \* history: the latest loop iteration, the decodes, the failed decodes before
  \* the first success, those that logged no warning and the writes to the
  \* shared buffer so far, the camera frames and foreign messages so far, the
  \* sends on the publish socket so far
  last_recv, n_ok, n_fail_first, n_skipped, n_writes, frames_in, foreign_in, n_sent,
  \* history: the arguments of the statistics updates so far
  seen_ids, seen_ts, lost_hist, arrivals, pub_arrivals

config == <<enable_stats, cfg_shm, image_show, pub_enable_stats>>
clientRun == <<running, enable_shm, image_shm, socket, context, pc, attempt, skipped_frames,
               n_socket_close, n_ctx_term>>
steps == <<at, owner_pc, caller, threads>>
clientStats == <<frame_count, last_frame_id, frame_times, latencies, lost_frames, total_frames>>
pubStats == <<pub_frame_count, pub_frame_times>>
buffers == <<img_array, segment, display>>
logs == <<log, attach_log, pub_log>>
loopHistory == <<last_recv, n_ok, n_fail_first, n_skipped, n_writes>>
statsHistory == <<seen_ids, seen_ts, lost_hist, arrivals>>
history == <<loopHistory, frames_in, foreign_in, n_sent, statsHistory, pub_arrivals>>
vars == <<steps, config, clientRun, clientStats, pubStats, buffers, wire, clock, logs, history>>

(***************************************************************************)
(* Sequences.                                                              *)
(***************************************************************************)
Last(s) == s[Len(s)]

RECURSIVE SumSeq(_)
SumSeq(s) == IF s = <<>> THEN 0 ELSE s[1] + SumSeq(Tail(s))

NonDecreasing(s) == \A i \in 1..Len(s) - 1 : s[i] <= s[i + 1]
StrictlyIncreasing(s) == \A i \in 1..Len(s) - 1 : s[i] < s[i + 1]

Range(s) == {s[i] : i \in 1..Len(s)}

(***************************************************************************)
(* The wire header: struct.pack('dI', timestamp, frame_id), 8 bytes of    *)
(* timestamp then 4 bytes of frame id, each little-endian.                 *)
(***************************************************************************)
RECURSIVE LEBytes(_, _)
LEBytes(n, width) ==
  IF width = 0 THEN <<>> ELSE <<n % 256>> \o LEBytes(n \div 256, width - 1)

RECURSIVE FromLE(_)
FromLE(bytes) ==
  IF bytes = <<>> THEN 0 ELSE bytes[1] + 256 * FromLE(Tail(bytes))

PackHeaderIdFirst(timestamp, frame_id) ==
  LEBytes(frame_id, 8) \o LEBytes(timestamp, 4)

PackHeader(timestamp, frame_id) ==
  LEBytes(timestamp, 8) \o LEBytes(frame_id, 4)

\* struct.unpack('dI', header): <<timestamp, frame_id>>
UnpackHeader(header) ==
  <<FromLE(SubSeq(header, 1, 8)), FromLE(SubSeq(header, 9, 12))>>

(***************************************************************************)
(* The codec (OpenCV).  An image is its shape and its content; its JPEG    *)
(* encoding is the SOI marker, the shape, the content, eight bytes of 0    *)
(* and the EOI marker (numbers read from any 8 or 4 of these bytes stay    *)
(* within TLC's 32-bit integers).                                          *)
(* cv2.imdecode gives the image back from a well-formed encoding and None  *)
(* from anything else; given an empty buffer it returns None or raises     *)
(* cv2.error, depending on the OpenCV build.                               *)
(***************************************************************************)
Shapes == <<"480x640x3", "240x320x3">>
Pixels == {1, 2}
Images == {[shape |-> Shapes[i], pix |-> p] : i \in 1..Len(Shapes), p \in Pixels}
\* The frames the camera delivers: one of the client's shape, one of another.
CameraImages == {[shape |-> Shapes[i], pix |-> i] : i \in 1..Len(Shapes)}
NoImage == [shape |-> "none", pix |-> 0]
Raised == [shape |-> "raise", pix |-> 0]

ShapeCode(shape) == CHOOSE i \in 1..Len(Shapes) : Shapes[i] = shape

imencode(img) ==
  <<255, 216, ShapeCode(img.shape), img.pix, 0, 0, 0, 0, 0, 0, 0, 0, 255, 217>>

\* The outcomes cv2.imdecode can have on these bytes: an image, NoImage for
\* None, or Raised for cv2.error.
imdecode(bytes) ==
  IF bytes = <<>> THEN {NoImage, Raised}
  ELSE IF \E img \in Images : imencode(img) = bytes
       THEN {CHOOSE img \in Images : imencode(img) = bytes}
       ELSE {NoImage}

\* A resize that leaves the image as it is.
resizeKeep(img, shape) == img

\* cv2.resize(current_image, (img_shape[1], img_shape[0]))
resize(img, shape) == [img EXCEPT !.shape = shape]

(***************************************************************************)
(* The sliding window: deque.popleft() while the front is older than      *)
(* now - time_window.                                                      *)
(***************************************************************************)
RECURSIVE EvictStale(_, _)
EvictStale(window, now) ==
  IF window # <<>> /\ window[1] <= now - time_window
  THEN EvictStale(Tail(window), now)
  ELSE window

RECURSIVE Evict(_, _)
Evict(window, now) ==
  IF window # <<>> /\ window[1] < now - time_window
  THEN Evict(Tail(window), now)
  ELSE window

\* The latency deque is trimmed only while frame_times is not empty; the test
\* compares the latency at the front with receive_time - time_window.
EvictLatencies(lats, times, receive_time) ==
  IF times # <<>> THEN Evict(lats, receive_time) ELSE lats

(***************************************************************************)
(* Loss detection of ImageClient._update_stats.                            *)
(***************************************************************************)
ExpectedFrameId(last, frame_id) == IF last # NoFrame THEN last + 1 ELSE frame_id

LostSigned(last, frame_id) == frame_id - ExpectedFrameId(last, frame_id)

LostNoFirst(last, frame_id) ==
  IF frame_id - (last + 1) > 0 THEN frame_id - (last + 1) ELSE 0

\* What one update adds to lost_frames.
Lost(last, frame_id) ==
  LET expected_frame_id == ExpectedFrameId(last, frame_id)
      lost == frame_id - expected_frame_id
  IN  IF frame_id # expected_frame_id /\ lost > 0 THEN lost ELSE 0

(***************************************************************************)
(* ImageClient._update_stats(timestamp, frame_id, receive_time)            *)
(***************************************************************************)
ClientUpdateStats(timestamp, frame_id, receive_time) ==
  LET latency == receive_time - timestamp
      lost == Lost(last_frame_id, frame_id)
  IN  /\ latencies' = EvictLatencies(Append(latencies, latency), frame_times, receive_time)
      /\ frame_times' = Evict(Append(frame_times, receive_time), receive_time)
      /\ lost_frames' = lost_frames + lost
      /\ last_frame_id' = frame_id
      /\ total_frames' = frame_id + 1
      /\ frame_count' = frame_count + 1
      /\ seen_ids' = Append(seen_ids, frame_id)
      /\ lost_hist' = Append(lost_hist, lost_frames')
      /\ seen_ts' = Append(seen_ts, timestamp)
      /\ arrivals' = Append(arrivals, receive_time)

(***************************************************************************)
(* ImageBridge._update_stats(current_time)                                 *)
(***************************************************************************)
BridgeUpdateStats(current_time) ==
  /\ pub_frame_times' = Evict(Append(pub_frame_times, current_time), current_time)
  /\ pub_frame_count' = pub_frame_count + 1
  /\ pub_arrivals' = Append(pub_arrivals, current_time)

(***************************************************************************)
(* Log lines.                                                              *)
(***************************************************************************)
\* logger.warning of a detected loss in ImageClient._update_stats.
LossLog(last, frame_id) ==
  IF Lost(last, frame_id) > 0 THEN <<"frame_loss">> ELSE <<>>

\* A side that reports after every frame.
StatsLogAlways(count) == <<"stats">>

\* _print_stats of either side: a report when the frame count is a multiple
\* of ReportEvery.
StatsLog(count) == IF count % ReportEvery = 0 THEN <<"stats">> ELSE <<>>

(***************************************************************************)
(* The state after construction: ImageClient.__init__, ImageBridge.__init__*)
(* The bridge's PUB socket is bound; the client has no socket yet.         *)
(***************************************************************************)
\* A thread start() has not made yet.
NoThread == [pc |-> "none", attempt |-> 0, recv_calls |-> 0, late |-> FALSE]
InitialFrame == [shape |-> img_shape, pix |-> 0]
NoRecv == [kind |-> "none", from |-> "none", message |-> <<>>, jpg_bytes |-> <<>>,
           header |-> <<>>, sent |-> <<>>, image |-> NoImage, ok_before |-> FALSE]

InitStats ==
  /\ frame_count = 0
  /\ last_frame_id = NoFrame
  /\ frame_times = <<>>
  /\ latencies = <<>>
  /\ lost_frames = 0
  /\ total_frames = 0
  /\ pub_frame_count = 0
  /\ pub_frame_times = <<>>
  /\ seen_ids = <<>>
  /\ seen_ts = <<>>
  /\ lost_hist = <<>>
  /\ arrivals = <<>>
  /\ pub_arrivals = <<>>

InitClient ==
  /\ running = TRUE
  /\ enable_shm = FALSE
  /\ image_shm = "none"
  /\ socket = "none"
  /\ context = "none"
  /\ pc = "init"
  /\ attempt = 0
  /\ skipped_frames = 0
  /\ img_array = InitialFrame
  /\ display = "none"
  /\ wire = <<>>
  /\ log = <<>>
  /\ attach_log = <<>>
  /\ pub_log = <<>>
  /\ last_recv = NoRecv
  /\ n_ok = 0
  /\ n_fail_first = 0
  /\ n_writes = 0
  /\ n_skipped = 0
  /\ n_socket_close = 0
  /\ n_ctx_term = 0
  /\ at = "context"
  /\ owner_pc = "idle"
  /\ caller = "idle"
  /\ threads = [w \in 1..MaxStarts |-> NoThread]
  /\ frames_in = 0
  /\ foreign_in = 0
  /\ n_sent = 0

Init ==
  /\ InitStats
  /\ InitClient
  /\ enable_stats \in BOOLEAN
  /\ cfg_shm \in BOOLEAN
  /\ image_show \in BOOLEAN
  /\ pub_enable_stats \in BOOLEAN
  /\ segment \in (IF cfg_shm THEN SegmentStates ELSE {"absent"})
  /\ clock = 0

(***************************************************************************)
(* SpecLoss: the consumer's statistics fed with frame ids in any order.    *)
(***************************************************************************)
\* A client constructed with enable_stats=True and nothing else, not started.
InitStatsOnly ==
  /\ InitStats
  /\ InitClient
  /\ enable_stats = TRUE
  /\ cfg_shm = FALSE
  /\ image_show = FALSE
  /\ pub_enable_stats = TRUE
  /\ segment = "absent"

InitLoss == InitStatsOnly /\ clock = 0

FeedFrame ==
  /\ Len(seen_ids) < MaxUpdates
  /\ \E frame_id \in 0..MaxId :
       /\ clock' = clock + 1
       /\ ClientUpdateStats(clock', frame_id, clock')
       /\ log' = LossLog(last_frame_id, frame_id)
  /\ UNCHANGED <<steps, config, clientRun, pubStats, buffers, wire, attach_log, pub_log,
                 loopHistory, frames_in, n_sent, foreign_in, pub_arrivals>>

NextLoss == FeedFrame

SpecLoss == InitLoss /\ [][NextLoss]_vars

(***************************************************************************)
(* SpecReport: the statistics block of either side, _update_stats then     *)
(* _print_stats, run MaxFrames times over a stream without gaps that       *)
(* begins at any of FirstIds: the publisher counts a frame it has sent,    *)
(* the subscriber counts it on receipt, and then the next frame is sent.   *)
(***************************************************************************)
InitReport == InitStatsOnly /\ clock = 0

\* if self.enable_stats: self._update_stats(...); self._print_stats(...)
ClientReport ==
  /\ frame_count < MaxFrames
  /\ frame_count < pub_frame_count
  /\ \E frame_id \in (IF last_frame_id = NoFrame THEN FirstIds ELSE {last_frame_id + 1}) :
       /\ clock' = clock + 1
       /\ ClientUpdateStats(clock', frame_id, clock')
       /\ log' = LossLog(last_frame_id, frame_id) \o StatsLog(frame_count')
  /\ UNCHANGED <<steps, config, clientRun, pubStats, buffers, wire, attach_log, pub_log,
                 loopHistory, frames_in, n_sent, foreign_in, pub_arrivals>>

\* if self.enable_stats: self._update_stats(...); self._print_stats(...)
BridgeReport ==
  /\ pub_frame_count < MaxFrames
  /\ pub_frame_count = frame_count
  /\ clock' = clock + 1
  /\ BridgeUpdateStats(clock')
  /\ pub_log' = StatsLog(pub_frame_count')
  /\ UNCHANGED <<steps, config, clientRun, clientStats, buffers, wire, log, attach_log,
                 loopHistory, frames_in, n_sent, foreign_in, statsHistory>>

NextReport == ClientReport \/ BridgeReport

SpecReport == InitReport /\ [][NextReport]_vars

(***************************************************************************)
(* SpecWindow: both sides' statistics fed with arrival times.  The         *)
(* consumer's frame ids are consecutive here.                              *)
(***************************************************************************)
InitWindow == InitStatsOnly /\ clock \in StartTimes

ClientArrival ==
  /\ Len(arrivals) + Len(pub_arrivals) < MaxUpdates
  /\ \E d \in Deltas, lat \in Lats :
       /\ clock' = clock + d
       /\ ClientUpdateStats(clock' - lat, frame_count, clock')
       /\ log' = LossLog(last_frame_id, frame_count)
  /\ UNCHANGED <<steps, config, clientRun, pubStats, buffers, wire, attach_log, pub_log,
                 loopHistory, frames_in, n_sent, foreign_in, pub_arrivals>>

BridgeArrival ==
  /\ Len(arrivals) + Len(pub_arrivals) < MaxUpdates
  /\ \E d \in Deltas :
       /\ clock' = clock + d
       /\ BridgeUpdateStats(clock')
  /\ UNCHANGED <<steps, config, clientRun, clientStats, buffers, wire, logs,
                 loopHistory, frames_in, n_sent, foreign_in, statsHistory>>

NextWindow == ClientArrival \/ BridgeArrival

SpecWindow == InitWindow /\ [][NextWindow]_vars

(***************************************************************************)
(* The publish/subscribe channel.  A message is kept with what the sender  *)
(* put into it (history).  The PUB socket drops a message when no          *)
(* subscriber is connected or the queue is full.                           *)
(***************************************************************************)
Deliver(entry) ==
  IF socket = "open" /\ Len(wire) < MaxQueue THEN Append(wire, entry) ELSE wire

\* A publisher that sends the frame id before the timestamp.
WrapIdFirst(with_header, timestamp, frame_id, jpg_bytes) ==
  IF with_header
  THEN PackHeaderIdFirst(timestamp, frame_id) \o jpg_bytes
  ELSE jpg_bytes

\* A publisher that numbers its messages from 1.
WrapNextId(with_header, timestamp, frame_id, jpg_bytes) ==
  IF with_header
  THEN PackHeader(timestamp, frame_id + 1) \o jpg_bytes
  ELSE jpg_bytes

\* The message of color_callback: header + jpg_bytes with statistics enabled,
\* jpg_bytes alone without.
Wrap(with_header, timestamp, frame_id, jpg_bytes) ==
  IF with_header
  THEN PackHeader(timestamp, frame_id) \o jpg_bytes
  ELSE jpg_bytes

\* A callback that sends the frame whatever cv2.imencode reported.
PublishedAnyway(ret, entry) == <<entry>>

\* What color_callback hands to zmq_socket.send: nothing after "if not ret:
\* return", the one message otherwise.
Published(ret, entry) == IF ret THEN <<entry>> ELSE <<>>

\* The channel after these sends.
DeliverAll(out) == IF out = <<>> THEN wire ELSE Deliver(out[1])

(***************************************************************************)
(* ImageBridge.color_callback(msg): cv_image is the converted camera       *)
(* frame, ret what cv2.imencode reports.  frame_count stays below 2^32     *)
(* here, so struct.pack does not fail.                                     *)
(***************************************************************************)
ColorCallback ==
  /\ frames_in + foreign_in < MaxMessages
  /\ \E cv_image \in CameraImages, ret \in BOOLEAN, d \in FramePeriods :
       LET now == clock + d
           jpg_bytes == imencode(cv_image)
           message == Wrap(pub_enable_stats, now, pub_frame_count, jpg_bytes)
           entry == [bytes |-> message, from |-> "bridge",
                     sent |-> IF pub_enable_stats THEN <<now, pub_frame_count>> ELSE <<>>,
                     image |-> cv_image]
           out == Published(ret, entry)
       IN  /\ clock' = now
           /\ frames_in' = frames_in + 1
           /\ wire' = DeliverAll(out)
           /\ n_sent' = n_sent + Len(out)
           /\ IF ~ret
              THEN /\ pub_log' = <<"encode_failed">>
                   /\ UNCHANGED <<pubStats, pub_arrivals>>
              ELSE /\ IF pub_enable_stats
                      THEN /\ BridgeUpdateStats(now)
                           /\ pub_log' = StatsLog(pub_frame_count')
                      ELSE /\ pub_log' = <<>>
                           /\ UNCHANGED <<pubStats, pub_arrivals>>
  /\ UNCHANGED <<steps, config, clientRun, clientStats, buffers, log, attach_log,
                 loopHistory, foreign_in, statsHistory>>

\* Another publisher at the subscribed address sends bytes of its own.
ForeignSend ==
  /\ frames_in + foreign_in < MaxMessages
  /\ socket = "open"
  /\ Len(wire) < MaxQueue
  /\ \E m \in ForeignMessages :
       wire' = Deliver([bytes |-> m, from |-> "foreign", sent |-> <<>>, image |-> NoImage])
  /\ foreign_in' = foreign_in + 1
  /\ UNCHANGED <<steps, config, clientRun, clientStats, pubStats, buffers, clock, logs,
                 loopHistory, frames_in, n_sent, statsHistory, pub_arrivals>>

(***************************************************************************)
(* ImageClient.close()                                                     *)
(***************************************************************************)
Close ==
  /\ running' = FALSE
  /\ socket' = IF socket = "none" THEN "none" ELSE "closed"
  /\ context' = IF context = "none" THEN "none" ELSE "closed"
  /\ n_socket_close' = IF socket = "none" THEN n_socket_close ELSE n_socket_close + 1
  /\ n_ctx_term' = IF context = "none" THEN n_ctx_term ELSE n_ctx_term + 1
  /\ display' = IF image_show THEN "destroyed" ELSE display

\* The owner calls close() from its own thread.
OwnerClose ==
  /\ running \/ socket = "open" \/ context = "open"
  /\ Close
  /\ UNCHANGED <<steps, config, enable_shm, image_shm, pc, attempt, skipped_frames, clientStats, pubStats,
                 img_array, segment, wire, clock, logs, history>>

(***************************************************************************)
(* ImageClient.run(): the attach phase.                                    *)
(***************************************************************************)
\* A run that enters the attach phase whatever was configured.
StartAlwaysAttach ==
  /\ pc = "init"
  /\ pc' = "attach"
  /\ UNCHANGED <<steps, config, running, enable_shm, image_shm, socket, context, n_socket_close, n_ctx_term, attempt,
                 skipped_frames, clientStats, pubStats, buffers, wire, clock, logs, history>>

\* start() (on its thread) or main() enters run().
Start ==
  /\ pc = "init"
  /\ pc' = IF cfg_shm THEN "attach" ELSE "connect"
  /\ UNCHANGED <<steps, config, running, enable_shm, image_shm, socket, context, n_socket_close, n_ctx_term, attempt, skipped_frames,
                 clientStats, pubStats, buffers, wire, clock, logs, history>>

\* The external renderer creates, sizes or removes the named segment.
SegmentChange ==
  /\ cfg_shm
  /\ pc \in {"init", "attach"}
  /\ \E s \in SegmentStates \ {segment} : segment' = s
  /\ UNCHANGED <<steps, config, clientRun, clientStats, pubStats, img_array, display, wire,
                 clock, logs, history>>

\* A phase that gives up one attempt early.
AttachNextShort(seg, att) ==
  CASE seg = "ready" -> "connect"
    [] seg = "absent" -> IF att + 1 < LastAttempt THEN "attach" ELSE "connect"
    [] OTHER -> "crashed"

\* Where run() is after attempt number att (0, 1, ...) found the segment seg.
AttachNext(seg, att) ==
  CASE seg = "ready" -> "connect"
    [] seg = "absent" -> IF att + 1 < MaxAttempts THEN "attach" ELSE "connect"
    [] OTHER -> "crashed"

\* A phase that logs the failure notice at every failed attempt.
AttachLogAlwaysError(seg, att) ==
  CASE seg = "ready" -> <<"attached">>
    [] seg = "absent" -> <<"attach_failed", "hint">>
    [] OTHER -> <<>>

\* What attempt number att logs.
AttachLog(seg, att) ==
  CASE seg = "ready" -> <<"attached">>
    [] seg = "absent" -> IF att < LastAttempt THEN <<"retry">> ELSE <<"attach_failed", "hint">>
    [] OTHER -> <<>>

\* self.image_shm after the attempt: SharedMemory(name=...) raises on an absent
\* segment and on one not yet sized, and succeeds on one that np.ndarray then
\* finds too small.
AttachedHandle(seg) ==
  CASE seg = "ready" -> {"attached"}
    [] seg = "absent" -> {"none"}
    [] OTHER -> {"none", "attached"}

\* A client that creates the segment it does not find.
SegmentCreated(seg) == IF seg = "absent" THEN "ready" ELSE seg

\* The named segment after SharedMemory(name=...): the call has no create=True
\* and so makes no segment, and ImageClient never calls unlink().
SegmentAfterAttach(seg) == seg

\* One pass of "for attempt in range(5)": FileNotFoundError is caught, any
\* other exception of SharedMemory or np.ndarray leaves run().
AttachAttempt ==
  /\ pc = "attach"
  /\ attempt' = attempt + 1
  /\ enable_shm' = (segment = "ready")
  /\ image_shm' \in AttachedHandle(segment)
  /\ attach_log' = Append(attach_log, [seen |-> segment, lines |-> AttachLog(segment, attempt)])
  /\ pc' = AttachNext(segment, attempt)
  /\ segment' = SegmentAfterAttach(segment)
  /\ UNCHANGED <<steps, config, running, socket, context, n_socket_close, n_ctx_term, skipped_frames, clientStats, pubStats,
                 img_array, display, wire, clock, log, pub_log, history>>

\* zmq.Context(), socket(zmq.SUB), connect, subscribe; skipped_frames = 0.
Connect ==
  /\ pc = "connect"
  /\ context' = "open"
  /\ socket' = "open"
  /\ skipped_frames' = 0
  /\ pc' = "recv"
  /\ UNCHANGED <<steps, config, running, enable_shm, image_shm, attempt, n_socket_close,
                 n_ctx_term, clientStats, pubStats, buffers, wire, clock, logs, history>>

\* zmq.Context(), socket() or connect() raises (no context can be made, or the
\* address is no endpoint): these lines are outside "try", so the exception
\* leaves run() with what was made so far.
ConnectFails ==
  /\ pc = "connect"
  /\ \E made \in {"nothing", "context", "socket"} :
       /\ context' = IF made = "nothing" THEN "none" ELSE "open"
       /\ socket' = IF made = "socket" THEN "unconnected" ELSE "none"
  /\ pc' = "aborted"
  /\ UNCHANGED <<steps, config, running, enable_shm, image_shm, attempt, skipped_frames,
                 n_socket_close, n_ctx_term, clientStats, pubStats, buffers, wire, clock, logs,
                 history>>

(***************************************************************************)
(* ImageClient.run(): one iteration of the receive loop.                   *)
(***************************************************************************)
\* jpg_bytes = message[header_size:], whatever enable_stats is.
JpgBytes(message) == SubSeq(message, header_size + 1, Len(message))

\* timestamp, frame_id = struct.unpack('dI', message[:header_size]), only with
\* statistics enabled.
ParsedHeader(message) ==
  IF enable_stats THEN UnpackHeader(SubSeq(message, 1, header_size)) ELSE <<>>

\* A client that decodes a short message all the same.
TooShortNever(message) == FALSE

\* if len(message) < header_size
TooShort(message) == Len(message) < header_size

\* What the iteration is remembered as.
Recv(kind, entry) ==
  [kind |-> kind, from |-> entry.from, message |-> entry.bytes,
   jpg_bytes |-> IF kind = "short" THEN <<>> ELSE JpgBytes(entry.bytes),
   header |-> IF kind = "short" THEN <<>> ELSE ParsedHeader(entry.bytes),
   sent |-> entry.sent, image |-> entry.image, ok_before |-> n_ok > 0]

\* The message is shorter than the header: a warning, and the next iteration.
DropShort(entry) ==
  /\ log' = <<"msg_too_short">>
  /\ last_recv' = Recv("short", entry)
  /\ UNCHANGED <<running, enable_shm, image_shm, socket, context, n_socket_close, n_ctx_term, pc, attempt, skipped_frames,
                 clientStats, buffers, n_ok, n_writes, n_fail_first, n_skipped, statsHistory>>

\* cv2.imdecode raised: "except Exception" logs the error and "finally" closes.
DecodeRaised(entry) ==
  /\ log' = <<"client_error">>
  /\ last_recv' = Recv("raised", entry)
  /\ Close
  /\ pc' = "closed"
  /\ UNCHANGED <<enable_shm, image_shm, attempt, skipped_frames, clientStats, img_array, segment,
                 n_ok, n_writes, n_fail_first, n_skipped, statsHistory>>

\* A tolerance with no bound: no failure is warned about.
SkipLogUnbounded(skipped) == IF skipped = 0 THEN <<"skip_startup">> ELSE <<>>

\* The log of an iteration whose decode gave None, skipped_frames being skipped.
SkipLog(skipped) ==
  IF skipped < max_skip
  THEN IF skipped + 1 = 1 THEN <<"skip_startup">> ELSE <<>>
  ELSE <<"decode_failed">>

\* A client that counts a frame it could not decode as processed.
DecodeFailedCounted(entry) ==
  /\ skipped_frames' = IF skipped_frames < max_skip THEN skipped_frames + 1 ELSE skipped_frames
  /\ log' = SkipLog(skipped_frames)
  /\ last_recv' = Recv("undecodable", entry)
  /\ n_fail_first' = IF n_ok = 0 THEN n_fail_first + 1 ELSE n_fail_first
  /\ n_skipped' = IF "decode_failed" \in Range(log') THEN n_skipped ELSE n_skipped + 1
  /\ frame_count' = frame_count + 1
  /\ UNCHANGED <<running, enable_shm, image_shm, socket, context, n_socket_close, n_ctx_term, pc, attempt,
                 last_frame_id, frame_times, latencies, lost_frames, total_frames, buffers,
                 n_ok, n_writes, statsHistory>>

\* current_image is None: skipped silently within the tolerance, a warning
\* beyond it; the next iteration either way.
DecodeFailed(entry) ==
  /\ skipped_frames' = IF skipped_frames < max_skip THEN skipped_frames + 1 ELSE skipped_frames
  /\ log' = SkipLog(skipped_frames)
  /\ last_recv' = Recv("undecodable", entry)
  /\ n_fail_first' = IF n_ok = 0 THEN n_fail_first + 1 ELSE n_fail_first
  /\ n_skipped' = IF "decode_failed" \in Range(log') THEN n_skipped ELSE n_skipped + 1
  /\ UNCHANGED <<running, enable_shm, image_shm, socket, context, n_socket_close, n_ctx_term, pc, attempt, clientStats, buffers,
                 n_ok, n_writes, statsHistory>>

\* skipped_frames after a successful decode.
SkippedAfterOk(skipped) ==
  IF skipped > 0 /\ skipped <= max_skip THEN max_skip + SkipRetired ELSE skipped

FirstOkLog(skipped) ==
  IF skipped > 0 /\ skipped <= max_skip THEN <<"receiving_ok">> ELSE <<>>

\* A client that copies into img_array whether or not it is attached.
CopyToAlways(shm, buf, image) == image

\* A client that never copies.
CopyToNever(shm, buf, image) == buf

\* if self.enable_shm: np.copyto(self.img_array, current_image)
CopyTo(shm, buf, image) == IF shm THEN image ELSE buf

\* The image decoded: the shared buffer, the debug window (quit: the q key),
\* the statistics.
Decoded(entry, current_image, quit) ==
  LET header == ParsedHeader(entry.bytes)
      fitted == IF current_image.shape # img_shape
                THEN resize(current_image, img_shape)
                ELSE current_image
  IN  /\ skipped_frames' = SkippedAfterOk(skipped_frames)
      /\ img_array' = CopyTo(enable_shm, img_array, fitted)
      /\ n_writes' = IF enable_shm THEN n_writes + 1 ELSE n_writes
      /\ last_recv' = Recv("decoded", entry)
      /\ n_ok' = n_ok + 1
      /\ IF quit
         THEN /\ Close
              /\ pc' = "closed"
              /\ log' = FirstOkLog(skipped_frames)
              /\ UNCHANGED <<clientStats, statsHistory>>
         ELSE /\ display' = IF image_show THEN "shown" ELSE display
              /\ UNCHANGED <<running, socket, context, n_socket_close, n_ctx_term, pc>>
              /\ IF enable_stats
                 THEN /\ ClientUpdateStats(header[1], header[2], clock)
                      /\ log' = FirstOkLog(skipped_frames)
                                  \o LossLog(last_frame_id, header[2])
                                  \o StatsLog(frame_count')
                 ELSE /\ log' = FirstOkLog(skipped_frames)
                      /\ UNCHANGED <<clientStats, statsHistory>>
      /\ UNCHANGED <<enable_shm, image_shm, attempt, segment, n_fail_first, n_skipped>>

\* The loop body after recv() returned the message of entry.
Body(entry) ==
  IF TooShort(entry.bytes)
  THEN DropShort(entry)
  ELSE \E current_image \in imdecode(JpgBytes(entry.bytes)),
          quit \in IF image_show THEN BOOLEAN ELSE {FALSE} :
         IF current_image = Raised THEN ~quit /\ DecodeRaised(entry)
         ELSE IF current_image = NoImage THEN ~quit /\ DecodeFailed(entry)
         ELSE Decoded(entry, current_image, quit)

\* message = self.socket.recv() and the rest of the loop body.
Receive ==
  /\ pc = "recv"
  /\ running
  /\ socket = "open"
  /\ wire # <<>>
  /\ wire' = Tail(wire)
  /\ Body(Head(wire))
  /\ UNCHANGED <<steps, config, pubStats, clock, attach_log, pub_log, frames_in, n_sent, foreign_in,
                 pub_arrivals>>

\* recv() on the socket the owner has closed raises: the error is logged and
\* "finally" closes.
RecvError ==
  /\ pc = "recv"
  /\ socket = "closed"
  /\ log' = <<"client_error">>
  /\ last_recv' = NoRecv
  /\ Close
  /\ pc' = "closed"
  /\ UNCHANGED <<steps, config, enable_shm, image_shm, attempt, skipped_frames, clientStats, pubStats,
                 img_array, segment, wire, clock, attach_log, pub_log, n_ok, n_writes, n_fail_first, n_skipped,
                 frames_in, n_sent, foreign_in, statsHistory, pub_arrivals>>

\* recv() raises on the open socket (a transport error): logged, and "finally"
\* closes.
RecvFault ==
  /\ pc = "recv"
  /\ running
  /\ socket = "open"
  /\ log' = <<"client_error">>
  /\ last_recv' = NoRecv
  /\ Close
  /\ pc' = "closed"
  /\ UNCHANGED <<steps, config, enable_shm, image_shm, attempt, skipped_frames, clientStats, pubStats,
                 img_array, segment, wire, clock, attach_log, pub_log, n_ok, n_writes,
                 n_fail_first, n_skipped, frames_in, n_sent, foreign_in, statsHistory, pub_arrivals>>

\* A loop that never looks at the flag.
LoopExitNever == FALSE /\ UNCHANGED vars

\* "while self.running" finds the flag cleared: "finally" closes.
LoopExit ==
  /\ pc = "recv"
  /\ ~running
  /\ log' = <<>>
  /\ last_recv' = NoRecv
  /\ Close
  /\ pc' = "closed"
  /\ UNCHANGED <<steps, config, enable_shm, image_shm, attempt, skipped_frames, clientStats, pubStats,
                 img_array, segment, wire, clock, attach_log, pub_log, n_ok, n_writes, n_fail_first, n_skipped,
                 frames_in, n_sent, foreign_in, statsHistory, pub_arrivals>>

(***************************************************************************)
(* Spec: publisher, channel and subscriber from their construction.        *)
(***************************************************************************)
Next ==
  \/ Start
  \/ SegmentChange
  \/ AttachAttempt
  \/ Connect
  \/ ConnectFails
  \/ Receive
  \/ RecvError
  \/ RecvFault
  \/ LoopExit
  \/ OwnerClose
  \/ ColorCallback
  \/ ForeignSend

Spec == Init /\ [][Next]_vars

(***************************************************************************)
(* SpecLive: the same program with its worker thread scheduled: an attach  *)
(* attempt, the socket setup and the end of the loop are taken when they   *)
(* stay possible.  The worker is at "while self.running" or inside         *)
(* socket.recv() when pc = "recv": once close() has run, it finds the flag *)
(* cleared or its recv() raises on the closed socket.  The statistics,    *)
(* which play no part in the life cycle, are set as quest_real_control.py  *)
(* runs the two sides: the bridge with --stats, the client without.        *)
(***************************************************************************)
InitLive ==
  /\ Init
  /\ ~enable_stats
  /\ pub_enable_stats

SpecLive ==
  /\ InitLive
  /\ [][Next]_vars
  /\ WF_vars(AttachAttempt)
  /\ WF_vars(Connect \/ ConnectFails)
  /\ WF_vars(LoopExit \/ RecvError)

(***************************************************************************)
(* SpecWire: a publisher that has been running for a while and a           *)
(* subscriber in its receive loop (constructed without shared buffer and   *)
(* without debug window, started, connected).                              *)
(***************************************************************************)
\* Frame counts and clock readings of the publisher (TLC's integers end at
\* 2^31 - 1).
SampleIds == {0, 255, 256, 65535, 16777216, 2147483000}
SampleTimes == {0, 1000, 16777215, 2147480000}

InitWire ==
  /\ enable_stats \in BOOLEAN
  /\ pub_enable_stats \in BOOLEAN
  /\ cfg_shm = FALSE
  /\ image_show = FALSE
  /\ segment = "absent"
  /\ clock \in SampleTimes
  /\ pub_frame_count \in (IF pub_enable_stats THEN SampleIds ELSE {0})
  /\ pub_frame_times = IF pub_frame_count > 0 THEN <<clock>> ELSE <<>>
  /\ pub_arrivals = pub_frame_times
  /\ frame_count = 0
  /\ last_frame_id = NoFrame
  /\ frame_times = <<>>
  /\ latencies = <<>>
  /\ lost_frames = 0
  /\ total_frames = 0
  /\ seen_ids = <<>>
  /\ seen_ts = <<>>
  /\ lost_hist = <<>>
  /\ arrivals = <<>>
  /\ running = TRUE
  /\ enable_shm = FALSE
  /\ image_shm = "none"
  /\ socket = "open"
  /\ context = "open"
  /\ pc = "recv"
  /\ attempt = 0
  /\ skipped_frames = 0
  /\ img_array = InitialFrame
  /\ display = "none"
  /\ wire = <<>>
  /\ log = <<>>
  /\ attach_log = <<>>
  /\ pub_log = <<>>
  /\ last_recv = NoRecv
  /\ n_ok = 0
  /\ n_fail_first = 0
  /\ n_writes = 0
  /\ n_skipped = 0
  /\ n_socket_close = 0
  /\ n_ctx_term = 0
  /\ at = "context"
  /\ owner_pc = "idle"
  /\ caller = "idle"
  /\ threads = [w \in 1..MaxStarts |-> NoThread]
  /\ frames_in = 0
  /\ foreign_in = 0
  /\ n_sent = 0

NextWire == ColorCallback \/ Receive

SpecWire == InitWire /\ [][NextWire]_vars

(***************************************************************************)
(* SpecClose: close() of the owner and run() of the worker followed        *)
(* statement by statement from the socket setup on, as quest_real_control  *)
(* runs them: shared buffer configured and present, no window, statistics  *)
(* of the client off and of the bridge on.  "at" is the statement the      *)
(* worker is about to execute and owner_pc the one the owner is about to   *)
(* execute in close().  Of libzmq: context.term() makes every later        *)
(* operation on a socket of the context other than close() fail and       *)
(* returns when the sockets of the context are closed; an operation on a   *)
(* closed socket or a terminated context fails.  The message recv()        *)
(* returned stays at the head of the channel until the body is through.    *)
(***************************************************************************)
OpenSockets == {"unconnected", "open"}

InitClose ==
  /\ Init
  /\ cfg_shm
  /\ segment = "ready"
  /\ ~image_show
  /\ ~enable_stats
  /\ pub_enable_stats

\* self.context = zmq.Context()
MakeContext ==
  /\ pc = "connect"
  /\ at = "context"
  /\ context' = "open"
  /\ at' = "socket"
  /\ UNCHANGED <<caller, threads, owner_pc, config, running, enable_shm, image_shm, socket, pc, attempt,
                 skipped_frames, n_socket_close, n_ctx_term, clientStats, pubStats, buffers,
                 wire, clock, logs, history>>

\* self.socket = self.context.socket(zmq.SUB): raises on a terminated context,
\* and the exception leaves run().
MakeSocket ==
  /\ pc = "connect"
  /\ at = "socket"
  /\ IF context = "open"
     THEN socket' = "unconnected" /\ at' = "connect" /\ pc' = pc
     ELSE socket' = socket /\ at' = at /\ pc' = "aborted"
  /\ UNCHANGED <<caller, threads, owner_pc, config, running, enable_shm, image_shm, context, attempt,
                 skipped_frames, n_socket_close, n_ctx_term, clientStats, pubStats, buffers,
                 wire, clock, logs, history>>

\* connect, setsockopt_string, sleep, skipped_frames = 0: connect raises on a
\* closed socket and on a context being terminated, and the exception leaves
\* run().
ConnectSocket ==
  /\ pc = "connect"
  /\ at = "connect"
  /\ IF socket = "unconnected" /\ context = "open"
     THEN socket' = "open" /\ at' = "head" /\ pc' = "recv"
     ELSE socket' = socket /\ at' = at /\ pc' = "aborted"
  /\ skipped_frames' = 0
  /\ UNCHANGED <<caller, threads, owner_pc, config, running, enable_shm, image_shm, context, attempt,
                 n_socket_close, n_ctx_term, clientStats, pubStats, buffers, wire, clock, logs,
                 history>>

\* while self.running
LoopHead ==
  /\ pc = "recv"
  /\ at = "head"
  /\ at' = IF running THEN "recv" ELSE "flag"
  /\ UNCHANGED <<caller, threads, owner_pc, config, clientRun, clientStats, pubStats, buffers, wire, clock,
                 logs, history>>

\* message = self.socket.recv(): returns a message, or raises once the socket
\* is closed or the context is being terminated ("except Exception", then
\* "finally").
BlockedRecv ==
  /\ pc = "recv"
  /\ at = "recv"
  /\ IF socket = "open" /\ context = "open"
     THEN wire # <<>> /\ at' = "body" /\ log' = log
     ELSE at' = "flag" /\ log' = <<"client_error">>
  /\ UNCHANGED <<caller, threads, owner_pc, config, clientRun, clientStats, pubStats, buffers, wire, clock,
                 attach_log, pub_log, history>>

\* The rest of the loop body.
LoopBody ==
  /\ pc = "recv"
  /\ at = "body"
  /\ wire' = Tail(wire)
  /\ Body(Head(wire))
  /\ at' = "head"
  /\ UNCHANGED <<caller, threads, owner_pc, config, pubStats, clock, attach_log, pub_log, frames_in, n_sent,
                 foreign_in, pub_arrivals>>

\* close() of the worker ("finally"): self.running = False
WorkerCloseFlag ==
  /\ pc = "recv"
  /\ at = "flag"
  /\ running' = FALSE
  /\ at' = "close_socket"
  /\ UNCHANGED <<caller, threads, owner_pc, config, enable_shm, image_shm, socket, context, pc, attempt,
                 skipped_frames, n_socket_close, n_ctx_term, clientStats, pubStats, buffers,
                 wire, clock, logs, history>>

\* if self.socket: self.socket.close()
WorkerCloseSocket ==
  /\ pc = "recv"
  /\ at = "close_socket"
  /\ socket' = "closed"
  /\ n_socket_close' = n_socket_close + 1
  /\ at' = "term"
  /\ UNCHANGED <<caller, threads, owner_pc, config, running, enable_shm, image_shm, context, pc, attempt,
                 skipped_frames, n_ctx_term, clientStats, pubStats, buffers, wire, clock, logs,
                 history>>

\* if self.context: self.context.term(); image_show is off; run() ends.
WorkerCloseContext ==
  /\ pc = "recv"
  /\ at = "term"
  /\ context' = "closed"
  /\ n_ctx_term' = n_ctx_term + 1
  /\ pc' = "closed"
  /\ UNCHANGED <<steps, config, running, enable_shm, image_shm, socket, attempt,
                 skipped_frames, n_socket_close, clientStats, pubStats, buffers, wire, clock,
                 logs, history>>

\* close() of the owner, any time after start(): self.running = False
OwnerCloseFlag ==
  /\ pc # "init"
  /\ owner_pc = "idle"
  /\ running' = FALSE
  /\ owner_pc' = "socket"
  /\ UNCHANGED <<caller, threads, at, config, enable_shm, image_shm, socket, context, pc, attempt,
                 skipped_frames, n_socket_close, n_ctx_term, clientStats, pubStats, buffers,
                 wire, clock, logs, history>>

\* if self.socket: self.socket.close()
OwnerCloseSocket ==
  /\ owner_pc = "socket"
  /\ socket' = IF socket = "none" THEN "none" ELSE "closed"
  /\ n_socket_close' = IF socket = "none" THEN n_socket_close ELSE n_socket_close + 1
  /\ owner_pc' = "context"
  /\ UNCHANGED <<caller, threads, at, config, running, enable_shm, image_shm, context, pc, attempt,
                 skipped_frames, n_ctx_term, clientStats, pubStats, buffers, wire, clock, logs,
                 history>>

\* if self.context: self.context.term(), which waits while a socket of the
\* context is open.
OwnerCloseContext ==
  /\ owner_pc = "context"
  /\ IF context = "none"
     THEN context' = context /\ n_ctx_term' = n_ctx_term /\ owner_pc' = "done"
     ELSE /\ n_ctx_term' = n_ctx_term + 1
          /\ IF socket \in OpenSockets
             THEN context' = "terminating" /\ owner_pc' = "term"
             ELSE context' = "closed" /\ owner_pc' = "done"
  /\ UNCHANGED <<caller, threads, at, config, running, enable_shm, image_shm, socket, pc, attempt,
                 skipped_frames, n_socket_close, clientStats, pubStats, buffers, wire, clock,
                 logs, history>>

\* term() of the owner returns: no socket of the context is open any more.
OwnerTermReturns ==
  /\ owner_pc = "term"
  /\ socket \notin OpenSockets
  /\ context' = "closed"
  /\ owner_pc' = "done"
  /\ UNCHANGED <<caller, threads, at, config, running, enable_shm, image_shm, socket, pc, attempt,
                 skipped_frames, n_socket_close, n_ctx_term, clientStats, pubStats, buffers,
                 wire, clock, logs, history>>

NextClose ==
  \/ Start
  \/ AttachAttempt
  \/ MakeContext
  \/ MakeSocket
  \/ ConnectSocket
  \/ LoopHead
  \/ BlockedRecv
  \/ LoopBody
  \/ WorkerCloseFlag
  \/ WorkerCloseSocket
  \/ WorkerCloseContext
  \/ OwnerCloseFlag
  \/ OwnerCloseSocket
  \/ OwnerCloseContext
  \/ OwnerTermReturns
  \/ ColorCallback

SpecClose == InitClose /\ [][NextClose]_vars

(***************************************************************************)
(* SpecStart: one client whose owner calls start() up to MaxStarts times   *)
(* and close() once, at any moment.  Every start() makes a thread that     *)
(* runs run() on the same object: the threads share running, the socket,   *)
(* the context,                                                            *)
(* the shared buffer and the statistics.  threads[w].pc is where thread w  *)
(* is: "attach", "connect", "head" (at "while self.running"), "recv"       *)
(* (inside socket.recv()), "ended"; recv_calls counts its calls of recv(), *)
(* and late says that running was already false when it was started.  The *)
(* publisher and the client both run with statistics and no window is      *)
(* shown, so every message decodes; the socket setup does not fail here,   *)
(* and the segment, when one is configured, was created before the client  *)
(* (quest_real_control.py creates it first).                               *)
(***************************************************************************)
InitStart ==
  /\ Init
  /\ ~image_show
  /\ enable_stats
  /\ pub_enable_stats
  /\ cfg_shm <=> segment = "ready"

Started == {w \in 1..MaxStarts : threads[w].pc # "none"}
Alive == {w \in 1..MaxStarts : threads[w].pc \notin {"none", "ended"}}

\* start(): threading.Thread(target=self.run, daemon=True) and its start().
StartCall ==
  /\ caller = "idle"
  /\ Cardinality(Started) < MaxStarts
  /\ threads' = [threads EXCEPT ![Cardinality(Started) + 1] =
                   [pc |-> IF cfg_shm THEN "attach" ELSE "connect",
                    attempt |-> 0, recv_calls |-> 0, late |-> ~running]]
  /\ caller' = "in_start"
  /\ UNCHANGED <<at, owner_pc, config, clientRun, clientStats, pubStats, buffers, wire, clock,
                 logs, history>>

\* A start() that waits for its thread to end before it returns.
StartReturnJoined ==
  /\ caller = "in_start"
  /\ Alive = {}
  /\ caller' = "idle"
  /\ UNCHANGED <<at, owner_pc, threads, config, clientRun, clientStats, pubStats, buffers, wire,
                 clock, logs, history>>

\* start() logs that the client runs in the background and returns.
StartReturn ==
  /\ caller = "in_start"
  /\ caller' = "idle"
  /\ UNCHANGED <<at, owner_pc, threads, config, clientRun, clientStats, pubStats, buffers, wire,
                 clock, logs, history>>

\* One pass of "for attempt in range(5)" in thread w: the fields are written
\* on success only; an exception other than FileNotFoundError ends the thread.
ThreadAttach(w) ==
  /\ threads[w].pc = "attach"
  /\ threads' = [threads EXCEPT
                   ![w].attempt = @ + 1,
                   ![w].pc = IF AttachNext(segment, threads[w].attempt) = "crashed"
                             THEN "ended"
                             ELSE AttachNext(segment, threads[w].attempt)]
  /\ enable_shm' = IF segment = "ready" THEN TRUE ELSE enable_shm
  /\ image_shm' \in IF segment = "absent" THEN {image_shm} ELSE AttachedHandle(segment)
  /\ attach_log' = Append(attach_log, [seen |-> segment,
                                       lines |-> AttachLog(segment, threads[w].attempt)])
  /\ segment' = SegmentAfterAttach(segment)
  /\ UNCHANGED <<at, owner_pc, caller, config, running, socket, context, pc, attempt,
                 skipped_frames, n_socket_close, n_ctx_term, clientStats, pubStats, img_array,
                 display, wire, clock, log, pub_log, history>>

\* zmq.Context(), socket(zmq.SUB), connect, subscribe in thread w: self.context
\* and self.socket are assigned anew.
ThreadConnect(w) ==
  /\ threads[w].pc = "connect"
  /\ threads' = [threads EXCEPT ![w].pc = "head"]
  /\ context' = "open"
  /\ socket' = "open"
  /\ UNCHANGED <<at, owner_pc, caller, config, running, enable_shm, image_shm, pc, attempt,
                 skipped_frames, n_socket_close, n_ctx_term, clientStats, pubStats, buffers,
                 wire, clock, logs, history>>

\* A loop that enters recv() whatever the flag says.
ThreadLoopAlways(w) ==
  /\ threads[w].pc = "head"
  /\ threads' = [threads EXCEPT ![w].pc = "recv", ![w].recv_calls = @ + 1]
  /\ UNCHANGED <<at, owner_pc, caller, config, clientRun, clientStats, pubStats, buffers, wire,
                 clock, logs, history>>

\* "while self.running" in thread w: into recv() with the flag set, and out of
\* the loop to "finally: self.close()" without.
ThreadLoopHead(w) ==
  /\ threads[w].pc = "head"
  /\ IF running
     THEN /\ threads' = [threads EXCEPT ![w].pc = "recv", ![w].recv_calls = @ + 1]
          /\ UNCHANGED <<running, socket, context, n_socket_close, n_ctx_term, display, log,
                         last_recv>>
     ELSE /\ threads' = [threads EXCEPT ![w].pc = "ended"]
          /\ Close
          /\ log' = <<>>
          /\ last_recv' = NoRecv
  /\ UNCHANGED <<at, owner_pc, caller, config, enable_shm, image_shm, pc, attempt,
                 skipped_frames, clientStats, pubStats, img_array, segment, wire, clock,
                 attach_log, pub_log, n_ok, n_fail_first, n_skipped, n_writes, frames_in,
                 foreign_in, n_sent, statsHistory, pub_arrivals>>

\* self.socket.recv() of thread w returns a message, and the body runs on it.
ThreadReceive(w) ==
  /\ threads[w].pc = "recv"
  /\ socket = "open"
  /\ wire # <<>>
  /\ wire' = Tail(wire)
  /\ Body(Head(wire))
  /\ threads' = [threads EXCEPT ![w].pc = "head"]
  /\ UNCHANGED <<at, owner_pc, caller, config, pubStats, clock, attach_log, pub_log, frames_in,
                 n_sent, foreign_in, pub_arrivals>>

\* self.socket.recv() of thread w raises on a closed socket: the error is
\* logged and "finally" closes.
ThreadRecvError(w) ==
  /\ threads[w].pc = "recv"
  /\ socket = "closed"
  /\ threads' = [threads EXCEPT ![w].pc = "ended"]
  /\ log' = <<"client_error">>
  /\ last_recv' = NoRecv
  /\ Close
  /\ UNCHANGED <<at, owner_pc, caller, config, enable_shm, image_shm, pc, attempt,
                 skipped_frames, clientStats, pubStats, img_array, segment, wire, clock,
                 attach_log, pub_log, n_ok, n_fail_first, n_skipped, n_writes, frames_in,
                 foreign_in, n_sent, statsHistory, pub_arrivals>>

\* color_callback on a frame of the client's shape that it encodes and sends
\* while a subscriber is connected.
CameraFrame ==
  /\ socket = "open"
  /\ ColorCallback
  /\ n_sent' = n_sent + 1
  /\ wire' # wire => Last(wire').image.shape = img_shape

\* The owner's one call of close().
OwnerStop ==
  /\ owner_pc = "idle"
  /\ owner_pc' = "done"
  /\ Close
  /\ UNCHANGED <<at, caller, threads, config, enable_shm, image_shm, pc, attempt,
                 skipped_frames, clientStats, pubStats, img_array, segment, wire, clock, logs,
                 history>>

NextStart ==
  \/ StartCall
  \/ StartReturn
  \/ \E w \in 1..MaxStarts :
       \/ ThreadAttach(w)
       \/ ThreadConnect(w)
       \/ ThreadLoopHead(w)
       \/ ThreadReceive(w)
       \/ ThreadRecvError(w)
  \/ OwnerStop
  \/ CameraFrame

SpecStart == InitStart /\ [][NextStart]_vars

(***************************************************************************)
(* SpecSkip: a subscriber entering its receive loop (no shared buffer, no  *)
(* window, no statistics) with a stream of MaxStream messages waiting:     *)
(* frames of a publisher with statistics, one every 4 ticks, and messages  *)
(* whose payload is no image.                                              *)
(***************************************************************************)
Streams == [1..MaxStream -> {"frame", "junk"}]
FramesBefore(st, i) == Cardinality({j \in 1..i - 1 : st[j] = "frame"})
StreamEntry(st, i) ==
  IF st[i] = "frame"
  THEN [bytes |-> Wrap(TRUE, 4 * i, FramesBefore(st, i), imencode([shape |-> img_shape, pix |-> 1])),
        from |-> "bridge", sent |-> <<4 * i, FramesBefore(st, i)>>,
        image |-> [shape |-> img_shape, pix |-> 1]]
  ELSE [bytes |-> <<0, 0, 0, 0, 0, 0, 0, 0, 0, 0, 0, 0, 9, 9>>,
        from |-> "foreign", sent |-> <<>>, image |-> NoImage]
\* The times of the frames of the stream, in order.
RECURSIVE FrameTimes(_, _)
FrameTimes(st, i) ==
  IF i = 0 THEN <<>>
  ELSE FrameTimes(st, i - 1) \o (IF st[i] = "frame" THEN <<4 * i>> ELSE <<>>)

InitSkip ==
  \E st \in Streams :
    /\ wire = [i \in 1..MaxStream |-> StreamEntry(st, i)]
    /\ frames_in = FramesBefore(st, MaxStream + 1)
    /\ foreign_in = MaxStream - frames_in
    /\ n_sent = frames_in
    /\ pub_frame_count = frames_in
    /\ pub_arrivals = FrameTimes(st, MaxStream)
    /\ pub_frame_times = IF pub_arrivals = <<>> THEN <<>>
                         ELSE Evict(pub_arrivals, Last(pub_arrivals))
    /\ clock = 4 * MaxStream
    /\ enable_stats = FALSE
    /\ pub_enable_stats = TRUE
    /\ cfg_shm = FALSE
    /\ image_show = FALSE
    /\ segment = "absent"
    /\ frame_count = 0
    /\ last_frame_id = NoFrame
    /\ frame_times = <<>>
    /\ latencies = <<>>
    /\ lost_frames = 0
    /\ total_frames = 0
    /\ seen_ids = <<>>
    /\ seen_ts = <<>>
    /\ lost_hist = <<>>
    /\ arrivals = <<>>
    /\ running = TRUE
    /\ enable_shm = FALSE
    /\ image_shm = "none"
    /\ socket = "open"
    /\ context = "open"
    /\ pc = "recv"
    /\ attempt = 0
    /\ skipped_frames = 0
    /\ img_array = InitialFrame
    /\ display = "none"
    /\ log = <<>>
    /\ attach_log = <<>>
    /\ pub_log = <<>>
    /\ last_recv = NoRecv
    /\ n_ok = 0
    /\ n_fail_first = 0
    /\ n_skipped = 0
    /\ n_writes = 0
    /\ n_socket_close = 0
    /\ n_ctx_term = 0
    /\ at = "context"
    /\ owner_pc = "idle"
    /\ caller = "idle"
    /\ threads = [w \in 1..MaxStarts |-> NoThread]

NextSkip == Receive

SpecSkip == InitSkip /\ [][NextSkip]_vars

(***************************************************************************)
(* Properties of the statistics.                                           *)
(***************************************************************************)
\* The sum over the consecutive pairs (a, b) of ids of b - a - 1.
GapSum(ids) == SumSeq([i \in 1..Len(ids) - 1 |-> ids[i + 1] - ids[i] - 1])
Consecutive(ids) == \A i \in 1..Len(ids) - 1 : ids[i + 1] = ids[i] + 1

\* C1: when the frame ids fed to _update_stats so far are strictly increasing,
\* lost_frames is the sum of the gaps b - a - 1 between consecutive ids; it is 0
\* when the ids are consecutive, and the first frame adds no loss whatever its
\* id.
C1_LossIsSumOfGaps ==
  /\ StrictlyIncreasing(seen_ids) => lost_frames = GapSum(seen_ids)
  /\ Consecutive(seen_ids) => lost_frames = 0
  /\ Len(seen_ids) >= 1 => lost_hist[1] = 0

C1_Witness ==
  /\ Len(seen_ids) = 3
  /\ StrictlyIncreasing(seen_ids)
  /\ seen_ids[1] > 0
  /\ seen_ids[2] > seen_ids[1] + 1
  /\ seen_ids[3] = seen_ids[2] + 1
  /\ lost_frames = seen_ids[2] - seen_ids[1] - 1

\* C2: an update with an id not greater than the last seen id leaves
\* lost_frames unchanged; lost_frames is never negative and never decreases;
\* after such an update the last seen id is the new id, and the id following it
\* counts no loss.
C2_ResetCountsNoLoss ==
  /\ lost_frames >= 0
  /\ \A i \in 1..Len(lost_hist) : lost_hist[i] >= 0
  /\ \A i \in 2..Len(lost_hist) : lost_hist[i] >= lost_hist[i - 1]
  /\ \A i \in 2..Len(seen_ids) :
       seen_ids[i] <= seen_ids[i - 1] => lost_hist[i] = lost_hist[i - 1]
  /\ \A i \in 3..Len(seen_ids) :
       (seen_ids[i - 1] <= seen_ids[i - 2] /\ seen_ids[i] = seen_ids[i - 1] + 1)
         => lost_hist[i] = lost_hist[i - 1]
  /\ seen_ids # <<>> => last_frame_id = Last(seen_ids)

C2_Witness ==
  /\ Len(seen_ids) = 4
  /\ lost_hist[2] > 0
  /\ seen_ids[3] < seen_ids[2]
  /\ seen_ids[4] = seen_ids[3] + 1
  /\ lost_frames = lost_hist[2]

\* The arrival times among all those admitted that are not older than
\* now - time_window, in the order of their admission.
Trailing(times) ==
  SelectSeq(times, LAMBDA t : t >= Last(times) - time_window)

\* C6: after every update at arrival time now, arrival times non-decreasing,
\* the arrival-time window of either side holds exactly the admitted arrival
\* times t >= now - 1.0 s in insertion order, the one just admitted included;
\* feeding 0.0, 0.4, 0.9, 1.2 leaves 0.4, 0.9, 1.2.
C6_ArrivalWindow ==
  /\ (arrivals # <<>> /\ NonDecreasing(arrivals)) =>
       /\ frame_times = Trailing(arrivals)
       /\ Last(frame_times) = Last(arrivals)
  /\ (pub_arrivals # <<>> /\ NonDecreasing(pub_arrivals)) =>
       /\ pub_frame_times = Trailing(pub_arrivals)
       /\ Last(pub_frame_times) = Last(pub_arrivals)
  /\ arrivals = <<0, 4, 9, 12>> => frame_times = <<4, 9, 12>>
  /\ pub_arrivals = <<0, 4, 9, 12>> => pub_frame_times = <<4, 9, 12>>

C6_Witness ==
  /\ arrivals = <<0, 4, 9, 12>>
  /\ frame_times = <<4, 9, 12>>

\* The latencies of the frames whose arrival lies in the trailing window.
TrailingLatencies ==
  LET idx == {i \in 1..Len(arrivals) : arrivals[i] >= Last(arrivals) - time_window}
      first == Len(arrivals) - Cardinality(idx)
  IN  [k \in 1..Cardinality(idx) |-> arrivals[first + k] - seen_ts[first + k]]

\* C7: after every consumer update, arrival times non-decreasing, the latency
\* window holds one latency for each frame whose arrival lies in the trailing
\* 1.0 s, so it is as long as the arrival-time window.
C7_LatencyWindowByArrivalAge ==
  (arrivals # <<>> /\ NonDecreasing(arrivals)) =>
    /\ Len(latencies) = Len(frame_times)
    /\ latencies = TrailingLatencies

(***************************************************************************)
(* Properties of the receive loop and the attach phase.                    *)
(***************************************************************************)
\* C3: a decode failure that occurs after a successful decode emits a
\* warning, however many failures preceded the first success.
C3_ToleranceRetiredAfterSuccess ==
  (last_recv.kind = "undecodable" /\ last_recv.ok_before)
    => "decode_failed" \in Range(log)

\* What the attach attempts so far found, and the lines they logged.
AttachSeen == [i \in 1..Len(attach_log) |-> attach_log[i].seen]
RECURSIVE Flatten(_)
Flatten(ss) == IF ss = <<>> THEN <<>> ELSE Head(ss).lines \o Flatten(Tail(ss))
AttachLines == Flatten(attach_log)
AllAbsent == [i \in 1..MaxAttempts |-> "absent"]
\* The segment was absent at the attempts before the k-th and present at it.
FirstPresentAt(k) ==
  /\ k <= Len(attach_log)
  /\ AttachSeen[k] # "absent"
  /\ \A j \in 1..k - 1 : AttachSeen[j] = "absent"

\* C4: the attach phase makes at most 5 attempts and stops at the first
\* successful one: when the named segment (the frame buffer, ready to be
\* mapped) is first there at attempt k, exactly k attempts occur and writing
\* is enabled; the phase gives up only after 5 attempts, and it ends: each
\* step of it is one of at most 5 attempts.
C4_AttachAtMostFive ==
  /\ attempt <= MaxAttempts
  /\ Len(attach_log) = attempt
  /\ pc = "attach" => attempt < MaxAttempts
  /\ \A k \in 1..MaxAttempts : FirstPresentAt(k) => (attempt = k /\ pc # "attach")
  /\ \A k \in 1..MaxAttempts :
       (FirstPresentAt(k) /\ AttachSeen[k] = "ready") => (enable_shm /\ pc # "crashed")
  /\ enable_shm => AttachSeen[attempt] = "ready"
  /\ (pc \in {"connect", "recv", "closed", "aborted"} /\ cfg_shm /\ ~enable_shm)
       => AttachSeen = AllAbsent

C4_Witness ==
  /\ FirstPresentAt(MaxAttempts)
  /\ enable_shm
  /\ pc = "recv"
  /\ img_array # InitialFrame

\* C5: with the segment absent at all 5 attempts the subscriber goes on to the
\* socket and the receive loop (it neither stays in the attach phase nor ends
\* there), writing to the shared buffer stays disabled for the whole session,
\* and the log of the attach phase is four retry warnings, then one failure
\* notice with its hint.
C5_DegradedAfterFiveAbsent ==
  AttachSeen = AllAbsent =>
    /\ pc \in {"connect", "recv", "closed", "aborted"}
    /\ ~enable_shm
    /\ img_array = InitialFrame
    /\ AttachLines = <<"retry", "retry", "retry", "retry", "attach_failed", "hint">>
    /\ Cardinality({i \in 1..Len(AttachLines) : AttachLines[i] = "attach_failed"}) = 1

C5_Witness ==
  /\ AttachSeen = AllAbsent
  /\ pc = "recv"
  /\ socket = "open"
  /\ running
  /\ last_recv.kind = "decoded"
  /\ img_array = InitialFrame

\* C10: an iteration that receives a message shorter than 12 bytes logs it
\* and does nothing else: the message is not decoded (no decode is counted,
\* the tolerance, the statistics and the shared buffer are untouched), and
\* the loop goes on (run() stays in the loop, flag and socket as they were).
C10_ShortMessageDropped ==
  [][(/\ pc = "recv"
      /\ wire # <<>>
      /\ wire' = Tail(wire)
      /\ Len(Head(wire).bytes) < header_size)
     => (/\ log' = <<"msg_too_short">>
         /\ last_recv'.kind = "short"
         /\ pc' = "recv"
         /\ UNCHANGED <<running, socket, context, n_socket_close, n_ctx_term, skipped_frames, n_ok, n_writes, n_fail_first, n_skipped,
                        img_array, clientStats>>)]_vars

C10_Witness ==
  /\ enable_stats
  /\ last_recv.kind = "short"
  /\ log = <<"msg_too_short">>
  /\ pc = "recv"
  /\ running
  /\ socket = "open"
  /\ wire # <<>>

(***************************************************************************)
(* Properties of the wire format.                                          *)
(***************************************************************************)
\* C8: with headers enabled on both sides, the subscriber's parse of a
\* message of the publisher gives the timestamp, the frame id and the payload
\* the publisher put in; the header is 12 bytes, the timestamp in the first 8
\* and the frame id in the last 4.
C8_HeaderRoundTrip ==
  (last_recv.from = "bridge" /\ pub_enable_stats /\ enable_stats) =>
    /\ last_recv.kind # "short"
    /\ Len(last_recv.message) = 12 + Len(imencode(last_recv.image))
    /\ last_recv.header = last_recv.sent
    /\ last_recv.jpg_bytes = imencode(last_recv.image)
    /\ FromLE(SubSeq(last_recv.message, 1, 8)) = last_recv.sent[1]
    /\ FromLE(SubSeq(last_recv.message, 9, 12)) = last_recv.sent[2]

C8_Witness ==
  /\ last_recv.from = "bridge"
  /\ pub_enable_stats
  /\ enable_stats
  /\ last_recv.kind = "decoded"
  /\ last_recv.header = <<2147480004, 2147483000>>

\* C9: with headers disabled on both sides the published message is the
\* encoded payload unchanged, and the subscriber hands the entire message to
\* the decoder: nothing is stripped, and no length of 12 is required.
C9_NoHeaderPassThrough ==
  (last_recv.from = "bridge" /\ ~pub_enable_stats /\ ~enable_stats) =>
    /\ last_recv.message = imencode(last_recv.image)
    /\ last_recv.kind # "short"
    /\ last_recv.jpg_bytes = last_recv.message

(***************************************************************************)
(* Properties of the subscriber's life cycle.                              *)
(***************************************************************************)
\* C11: an iteration whose decode fails, whether cv2.imdecode returns None or
\* raises, leaves the subscriber in the receive loop with the running flag
\* true and the socket open.
C11_DecodeFailureKeepsLoop ==
  [][(/\ pc = "recv"
      /\ wire # <<>>
      /\ wire' = Tail(wire)
      /\ last_recv'.kind \in {"undecodable", "raised"})
     => (pc' = "recv" /\ running' /\ socket' = "open")]_vars

\* run() has ended: by its "finally", or by an exception before "try".
RunEnded == pc \in {"closed", "crashed", "aborted"}

C13_CloseOnEveryExit ==
  RunEnded =>
    /\ ~running
    /\ socket \in {"none", "closed"}
    /\ context \in {"none", "closed"}

\* C14: in Closed the socket and the context are released, the debug window
\* is closed if it was enabled, and no handle of the shared buffer is left
\* attached.
C14_ClosedReleasesAll ==
  pc = "closed" =>
    /\ socket = "closed"
    /\ context = "closed"
    /\ image_show => display = "destroyed"
    /\ image_shm # "attached"

\* The moves of run() from one state to another.
PcMoves ==
  { <<"init", IF cfg_shm THEN "attach" ELSE "connect">>,
    <<"attach", "connect">>, <<"attach", "crashed">>,
    <<"connect", "recv">>, <<"connect", "aborted">>,
    <<"recv", "closed">> }

\* C15: run() goes from Disconnected (init) through the attach phase, which
\* it skips exactly when no shared buffer is configured, the socket setup
\* (connect) and the receive loop (recv) to Closed, in this order or ending on
\* the way; socket and context exist only after the attach phase, and a
\* message is taken from the channel only in the loop with the socket open.
C15_StateOrder ==
  /\ [](pc \in {"init", "attach", "connect"} => (socket = "none" /\ context = "none"))
  /\ [](pc \in {"init", "attach", "connect"} => (last_recv = NoRecv /\ n_ok = 0 /\ wire = <<>>))
  /\ [](pc = "attach" => cfg_shm)
  /\ [][pc' # pc => <<pc, pc'>> \in PcMoves]_vars
  /\ [][(wire # <<>> /\ wire' = Tail(wire)) => (pc = "recv" /\ socket = "open")]_vars

C15_Witness ==
  /\ pc = "closed"
  /\ cfg_shm
  /\ attempt = 2
  /\ enable_shm
  /\ n_ok = 2

(***************************************************************************)
(* Properties of the publisher.                                            *)
(***************************************************************************)
BridgeMessages(w) == Cardinality({i \in 1..Len(w) : w[i].from = "bridge"})

\* C16: a callback sends one message when the encoding succeeded and none when
\* it failed, and no other step sends or queues a message of the publisher.
C16_OneSendPerEncodedFrame ==
  [][/\ frames_in' = frames_in + 1 =>
          IF pub_log' = <<"encode_failed">>
          THEN n_sent' = n_sent /\ wire' = wire
          ELSE n_sent' = n_sent + 1
     /\ frames_in' = frames_in =>
          (n_sent' = n_sent /\ BridgeMessages(wire') <= BridgeMessages(wire))]_vars

C16_Witness ==
  /\ frames_in = 3
  /\ n_sent = 2
  /\ pub_log # <<"encode_failed">>
  /\ BridgeMessages(wire) = 1

\* C17: with statistics enabled the publisher's frame counter is the number of
\* encodes attempted.
C17_CounterCountsAttempts ==
  pub_enable_stats => pub_frame_count = frames_in

(***************************************************************************)
(* Properties of the shared frame buffer.                                  *)
(***************************************************************************)
\* C18: with the buffer attached there are as many writes as decoded frames;
\* without it (none configured, or the attach given up) there is no write
\* and the buffer keeps its initial content.
C18_WritesMatchDecodes ==
  /\ enable_shm => n_writes = n_ok
  /\ ~enable_shm => (n_writes = 0 /\ img_array = InitialFrame)

C18_Witness ==
  /\ enable_shm
  /\ n_writes = 2
  /\ last_recv.kind = "undecodable"

\* C19: what the shared buffer holds has the configured shape, whatever the
\* shape of the decoded image, and the attached segment stays the one it was.
C19_BufferKeepsShape ==
  /\ img_array.shape = img_shape
  /\ enable_shm => segment = "ready"

C19_Witness ==
  /\ enable_shm
  /\ last_recv.kind = "decoded"
  /\ last_recv.image.shape # img_shape
  /\ img_array = [shape |-> img_shape, pix |-> last_recv.image.pix]

\* C20: the shared buffer changes only in an iteration that decodes a frame
\* with the buffer attached, and then to that frame (at the buffer's shape);
\* frames are taken in the order of the channel, so the buffer holds the
\* latest decoded frame at every loop boundary.
C20_BufferHoldsLatestFrame ==
  [][img_array' =
       IF /\ pc = "recv"
          /\ wire # <<>>
          /\ wire' = Tail(wire)
          /\ last_recv'.kind = "decoded"
          /\ enable_shm
       THEN [shape |-> img_shape, pix |-> Head(wire).image.pix]
       ELSE img_array]_vars

C20_Witness ==
  /\ enable_shm
  /\ n_writes = 2
  /\ last_recv.kind = "short"
  /\ img_array # InitialFrame

(***************************************************************************)
(* Further properties of the statistics.                                   *)
(***************************************************************************)
\* C21: a client whose statistics (headers) are disabled still keeps the
\* window of arrival times and counts the frames it decoded.
C21_ArrivalWindowWithoutHeaders ==
  (pc = "recv" /\ ~enable_stats /\ n_ok > 0)
    => (frame_count = n_ok /\ frame_times # <<>>)

RECURSIVE MaxOf(_)
MaxOf(ids) ==
  IF Len(ids) = 1 THEN ids[1]
  ELSE LET m == MaxOf(Tail(ids)) IN IF ids[1] > m THEN ids[1] ELSE m
\* The loss a frame adds when it is measured against the highest id before it.
GapToMaximum(ids, i) ==
  IF i = 1 THEN 0
  ELSE LET gap == ids[i] - MaxOf(SubSeq(ids, 1, i - 1)) - 1
       IN  IF gap > 0 THEN gap ELSE 0

\* C22: each update adds to lost_frames the gap between its id and the highest
\* id seen before it, and nothing when its id is below that.
C22_LossRelativeToMaximum ==
  \A i \in 1..Len(seen_ids) :
    lost_hist[i] - (IF i = 1 THEN 0 ELSE lost_hist[i - 1]) = GapToMaximum(seen_ids, i)

\* C29: lost_frames never exceeds total_frames once a frame was seen.
C29_LossRateAtMostOne ==
  total_frames > 0 => lost_frames <= total_frames

(***************************************************************************)
(* Further properties of the attach phase and of the publisher.            *)
(***************************************************************************)
\* C28: an attach attempt that finds a segment it cannot map leaves the
\* subscriber without shared buffer and on its way to the socket and the
\* loop, as an absent segment does.
C28_AttachFailureDegrades ==
  \A i \in 1..Len(attach_log) :
    AttachSeen[i] = "unfit"
      => (pc \in {"attach", "connect", "recv", "closed", "aborted"} /\ ~enable_shm)

\* C30: with statistics enabled the n-th message sent carries frame id n - 1:
\* the counter equals the number of sends, and a message put on the channel
\* has in its bytes 9..12 the number of sends before it.
C30_SentIdsConsecutive ==
  /\ [](pub_enable_stats => pub_frame_count = n_sent)
  /\ [][(pub_enable_stats /\ n_sent' = n_sent + 1 /\ Len(wire') > Len(wire))
        => (/\ wire'[Len(wire')].from = "bridge"
            /\ FromLE(SubSeq(wire'[Len(wire')].bytes, 9, 12)) = n_sent)]_vars

C30_Witness ==
  /\ pub_enable_stats
  /\ frames_in = 3
  /\ n_sent = 2
  /\ wire # <<>>
  /\ wire[Len(wire)].sent = <<12, 1>>

(***************************************************************************)
(* Further properties of the receive loop.                                 *)
(***************************************************************************)
\* C23: of the decode failures before the first success the first 5 log no
\* warning and every later one does; and in a whole session no more than 5
\* decode failures pass without a warning.
C23_ToleranceIsBounded ==
  /\ n_skipped <= 5
  /\ n_ok = 0 => n_skipped = (IF n_fail_first < 5 THEN n_fail_first ELSE 5)
  /\ (last_recv.kind = "undecodable" /\ n_ok = 0) =>
       IF n_fail_first <= 5
       THEN "decode_failed" \notin Range(log)
       ELSE log = <<"decode_failed">>

C23_Witness ==
  /\ n_ok = 0
  /\ n_fail_first = 6
  /\ n_skipped = 5
  /\ log = <<"decode_failed">>
  /\ last_recv.kind = "undecodable"

(***************************************************************************)
(* Properties of close() running beside the worker.                        *)
(***************************************************************************)
\* C24: once close() of the owner has returned, no step writes to the shared
\* buffer.
C24_NoWriteAfterClose ==
  [][owner_pc = "done" => (n_writes' = n_writes /\ img_array' = img_array)]_vars

\* C25: when close() of the owner has returned and the worker has ended, no
\* socket and no context is open; and close() is not left waiting in term()
\* by a worker that has ended.
C25_StartupCloseLeavesNothingOpen ==
  /\ (owner_pc = "done" /\ RunEnded) =>
       (socket \notin OpenSockets /\ context \in {"none", "closed"})
  /\ owner_pc = "term" => ~RunEnded

\* C26: socket.close() and context.term() are each called at most once in a
\* session.
C26_ReleasedOnce ==
  /\ n_socket_close <= 1
  /\ n_ctx_term <= 1

\* C27: the step of close() that clears the running flag leaves no socket and
\* no context open.
C27_ReleaseBeforeFlag ==
  [][(running /\ ~running') =>
       (socket' \notin OpenSockets /\ context' # "open")]_vars


(***************************************************************************)
(* Properties of the messages the loop does not process.                   *)
(***************************************************************************)
\* C31: an iteration whose message is dropped as too short, or whose decode
\* fails (None, or an exception), leaves all six consumer statistics as they
\* were: frame count, last seen id, lost-frame count, total frames, arrival
\* window and latency window.
C31_FailureLeavesStatistics ==
  [][(/\ pc = "recv"
      /\ wire # <<>>
      /\ wire' = Tail(wire)
      /\ last_recv'.kind \in {"short", "undecodable", "raised"})
     => UNCHANGED <<frame_count, last_frame_id, lost_frames, total_frames,
                    frame_times, latencies>>]_vars

\* A decode failure after a frame went into the statistics.
C31_Witness ==
  /\ enable_stats
  /\ last_recv.kind = "undecodable"
  /\ frame_count = 1
  /\ last_frame_id = 0
  /\ frame_times # <<>>
  /\ latencies # <<>>

\* What is left of a message after its first 12 bytes encodes no image.
Malformed(message) == \A img \in Images : imencode(img) # JpgBytes(message)

\* C32: an iteration whose payload is no image, the empty payload of a 12-byte
\* message included, gets a failure value from the decode and applies the
\* skip/warn policy to it; the decode raises nothing, so the subscriber stays
\* in the loop.
C32_DecodeNeverRaises ==
  [][(/\ pc = "recv"
      /\ wire # <<>>
      /\ wire' = Tail(wire)
      /\ ~TooShort(Head(wire).bytes)
      /\ Malformed(Head(wire).bytes))
     => (/\ last_recv'.kind = "undecodable"
         /\ log' = SkipLog(skipped_frames)
         /\ pc' = "recv"
         /\ running')]_vars

\* The integers the subscriber keeps across iterations.
SessionCounts == <<frame_count, lost_frames, total_frames, skipped_frames>>

\* C33: an iteration that drops a message shorter than the header, or that
\* warns about a decode failure outside the tolerance, adds exactly one to a
\* count of dropped messages kept by the subscriber.
C33_DropsAreCounted ==
  [][(/\ pc = "recv"
      /\ wire # <<>>
      /\ wire' = Tail(wire)
      /\ \/ last_recv'.kind = "short"
         \/ last_recv'.kind = "undecodable" /\ "decode_failed" \in Range(log'))
     => \E i \in 1..Len(SessionCounts) : SessionCounts'[i] = SessionCounts[i] + 1]_vars

(***************************************************************************)
(* Properties of the statistics report.                                    *)
(***************************************************************************)
\* C34: after a statistics update of either side, a report is logged exactly
\* when that side's count of processed frames is a positive multiple of 30;
\* none is logged at count 0 or between two multiples.
C34_ReportEveryThirty ==
  /\ "stats" \in Range(log) <=> (frame_count > 0 /\ frame_count % 30 = 0)
  /\ "stats" \in Range(pub_log) <=> (pub_frame_count > 0 /\ pub_frame_count % 30 = 0)

\* Each side reports at its 60th frame, the subscriber's carrying the id 66.
C34_Witness ==
  /\ frame_count = 60
  /\ last_frame_id = 66
  /\ log = <<"stats">>
  /\ pub_frame_count = 60
  /\ pub_log = <<"stats">>

(***************************************************************************)
(* Properties of start().                                                  *)
(***************************************************************************)
\* C35: whatever calls of start() were made on the client, at most one of the
\* threads they made is alive.
C35_AtMostOneWorker == Cardinality(Alive) <= 1

\* C36: start() can return whenever it has made its thread, wherever that
\* thread and the earlier ones are in run(): in the attach phase, in the
\* socket setup or inside recv().
C36_StartDoesNotWait == caller = "in_start" => ENABLED StartReturn

\* Both calls of start() have returned; the first thread waits inside recv()
\* with nothing to receive, and the second has not made its attach attempt.
C36_Witness ==
  /\ caller = "idle"
  /\ threads[1].pc = "recv"
  /\ wire = <<>>
  /\ threads[2].pc = "attach"
  /\ threads[2].attempt = 0

\* C38: the running flag never goes from false to true; a thread started
\* when the flag was false never calls recv(), and it leaves "while
\* self.running" at once for close(), after which the socket and the context
\* it opened are released.
C38_NoRestart ==
  [][/\ ~running => ~running'
     /\ \A w \in 1..MaxStarts :
          /\ threads'[w].late => threads'[w].recv_calls = 0
          /\ (threads[w].late /\ threads[w].pc = "head" /\ threads'[w] # threads[w])
               => (/\ threads'[w].pc = "ended"
                   /\ socket' = "closed"
                   /\ context' = "closed")]_vars

\* The second start() came after close(); its thread has opened a socket,
\* a frame was sent to it, and the thread ended without receiving it.
C38_Witness ==
  /\ threads[2].late
  /\ threads[2].pc = "ended"
  /\ threads[2].recv_calls = 0
  /\ threads[1].pc = "ended"
  /\ wire # <<>>
  /\ socket = "closed"

(***************************************************************************)
(* Properties of the named segment.                                        *)
(***************************************************************************)
\* C37: no step of the subscriber creates or removes the named segment (the
\* segment changes only in steps in which the subscriber does nothing), and
\* the segment a subscriber attached to still exists when it is Closed.
C37_SegmentNeitherMadeNorRemoved ==
  [][/\ segment' # segment =>
          UNCHANGED <<running, enable_shm, image_shm, socket, context, pc, attempt, log,
                      attach_log, last_recv, img_array>>
     /\ (pc' = "closed" /\ image_shm' = "attached") => segment' \in {"ready", "unfit"}]_vars

\* A subscriber that found no segment in two attempts and attached in the
\* third is Closed, and the segment is there.
C37_Witness ==
  /\ pc = "closed"
  /\ attempt = 3
  /\ enable_shm
  /\ image_shm = "attached"
  /\ segment = "ready"

=============================================================================
